---- MODULE Spec2Model ----
(***************************************************************************)
(* Model of legal_citation_parser/utils.py: check_url, canlii_api_call,    *)
(* create_citation_database and insert_data, with the SQLite store         *)
(* (results.db) they share.                                                *)
(*                                                                         *)
(* Text values are sequences of one-character strings, so that             *)
(* str.split(' — ') is computed rather than assumed.  The scalar columns   *)
(* of the results table hold short tags ("a", "b", ...) or NULL.           *)
(***************************************************************************)
EXTENDS Integers, Sequences, FiniteSets, Bags, TLC

VARIABLES
    tables,       \* names of the relations that exist in results.db (durable)
    results,      \* durable rows of the results relation (a set of rows)
    keywords,     \* durable rows of the keywords relation (a bag of <<uid, keyword>>)
    categories,   \* durable rows of the categories relation (a bag of <<uid, category>>)
    pc,           \* position of the current insert_data call
    conn,         \* the connection insert_data opened: "none", "open", "closed"
    tx,           \* the connection's uncommitted view of the three relations
    data,         \* insert_data's argument `data`
    policy,       \* insert_data's argument `update_existing`
    source,       \* where `data` came from: "caller", "api", "merged"
    todo,         \* tokens the keyword / category loop still has to insert
    error,        \* the exception that ended the last call, or "none"
    pre,          \* the durable relations when the current call began
    calls,        \* number of insert_data calls begun
    createError,  \* the exception the last create_citation_database raised, or "none"
    apiPc,        \* position of the current canlii_api_call
    apiFlags,     \* the facet flags the call was given
    apiIssued,    \* facets whose endpoint received a request
    apiRecord,    \* metadata_api_info
    apiBad,       \* a requested facet answered non-success or with a non-JSON body
    urlPc,        \* position of the current check_url call
    urlArg,       \* check_url's argument
    urlFetch,     \* what the network did with the fetch
    urlOutcome,   \* what requests.get did: a response or an exception
    urlResult     \* what check_url returned

storeVars == <<tables, results, keywords, categories, pc, conn, tx, data, policy,
               source, todo, error, pre, calls, createError>>
apiVars == <<apiPc, apiFlags, apiIssued, apiRecord, apiBad>>
urlVars == <<urlPc, urlArg, urlFetch, urlOutcome, urlResult>>
vars == <<storeVars, apiVars, urlVars>>

\* ---------------------------------------------------------------- bounds
\* insert_data calls per behaviour
MaxCalls == 2
\* longest time the server takes to answer a check_url fetch
MaxDelay == 6

\* ---------------------------------------------------------------- values
NULL == "NULL"

\* The em-dash character (U+2014) of the delimiter, as one character.
EmDash == "U+2014"
Delim == <<" ", EmDash, " ">>

\* The columns of the results relation, uid first.
ParserColumns ==
    {"style_of_cause", "atomic_citation", "citation_type", "scr_citation", "year",
     "court", "decision_number", "jurisdiction", "court_name", "court_level",
     "long_url"}
ServiceColumns == {"short_url", "language", "docket_number", "decision_date"}
ScalarColumns == ParserColumns \cup ServiceColumns
Columns == {"uid"} \cup ScalarColumns

Relations == {"results", "keywords", "categories"}

\* ---------------------------------------------------------------- str.split
\* Index of the first occurrence of Delim in s at or after i, 0 when there is none.
RECURSIVE FindDelim(_, _)
FindDelim(s, i) ==
    IF i + Len(Delim) - 1 > Len(s) THEN 0
    ELSE IF SubSeq(s, i, i + Len(Delim) - 1) = Delim THEN i
    ELSE FindDelim(s, i + 1)

\* s.split(' — '): the pieces of s between the occurrences of the delimiter,
\* scanned left to right; a string without the delimiter is one piece.
RECURSIVE Split(_)
Split(s) ==
    LET i == FindDelim(s, 1) IN
    IF i = 0 THEN <<s>>
    ELSE <<SubSeq(s, 1, i - 1)>> \o Split(SubSeq(s, i + Len(Delim), Len(s)))

\* Python truthiness of data.get(k) for a text value: None and '' are falsy.
Truthy(d, k) == k \in DOMAIN d /\ d[k] # <<>>

\* The tokens insert_data inserts for the delimited field k of d.
Tokens(d, k) == IF Truthy(d, k) THEN Split(d[k]) ELSE <<>>

\* ---------------------------------------------------------------- SQL statements
\* The row the sixteen placeholders of either INSERT bind, from data[...].
RowOf(d) == [c \in Columns |-> d[c]]

\* Building the parameter tuple raises KeyError when a subscripted key is missing.
HasAllColumns(d) == Columns \subseteq DOMAIN d

\* uid TEXT PRIMARY KEY: an insert conflicts with a stored row of the same uid.
Conflicts(rows, r) == \E x \in rows : x.uid = r.uid

\* Mutant: INSERT OR REPLACE, which puts the incoming row in place of the stored one.
InsertOrReplaceRow(rows, r) == {x \in rows : x.uid # r.uid} \cup {r}

\* INSERT OR IGNORE INTO results: on a uid conflict the statement does nothing.
InsertOrIgnoreRow(rows, r) ==
    IF Conflicts(rows, r) THEN rows ELSE rows \cup {r}

\* Mutant: a SET list that leaves decision_date out.
UpdateSetColumnsShort ==
    {"style_of_cause", "atomic_citation", "citation_type", "scr_citation", "year",
     "court", "decision_number", "jurisdiction", "court_name", "court_level",
     "long_url", "short_url", "language", "docket_number"}

\* The columns named in ON CONFLICT(uid) DO UPDATE SET c = excluded.c.
UpdateSetColumns ==
    {"style_of_cause", "atomic_citation", "citation_type", "scr_citation", "year",
     "court", "decision_number", "jurisdiction", "court_name", "court_level",
     "long_url", "short_url", "language", "docket_number", "decision_date"}

\* INSERT ... ON CONFLICT(uid) DO UPDATE SET ...: on a uid conflict the stored
\* row takes the incoming value of every column in the SET list.
UpsertRow(rows, r) ==
    IF Conflicts(rows, r)
    THEN {IF x.uid = r.uid
          THEN [c \in Columns |-> IF c \in UpdateSetColumns THEN r[c] ELSE x[c]]
          ELSE x : x \in rows}
    ELSE rows \cup {r}

\* The primary-row statement insert_data runs for its update_existing argument.
PrimaryStatement(rows, r, update_existing) ==
    IF update_existing THEN UpsertRow(rows, r) ELSE InsertOrIgnoreRow(rows, r)

\* The keywords and categories relations declare uid, a text column and a
\* foreign key: no PRIMARY KEY and no UNIQUE constraint.
ChildUniqueConstraint == FALSE

\* INSERT OR IGNORE INTO keywords / categories: OR IGNORE skips a row only when
\* it violates a constraint of the relation.
InsertOrIgnoreChild(bag, row) ==
    IF ChildUniqueConstraint /\ BagIn(row, bag) THEN bag ELSE bag (+) SetToBag({row})

\* CREATE TABLE [IF NOT EXISTS] name: a new empty relation; on an existing
\* relation a no-op with IF NOT EXISTS and an error without it.
CreateTable(st, name, ifNotExists) ==
    IF name \in st.tables
    THEN [st |-> st, err |-> IF ifNotExists THEN "none" ELSE "OperationalError"]
    ELSE [st |-> [st EXCEPT !.tables = @ \cup {name},
                            ![name] = IF name = "results" THEN {} ELSE EmptyBag],
          err |-> "none"]

\* Mutant: plain CREATE TABLE statements.
IfNotExistsOmitted == FALSE

\* Every CREATE TABLE of create_citation_database carries IF NOT EXISTS.
IfNotExists == TRUE

\* The durable content of results.db.
Durable ==
    [tables |-> tables, results |-> results, keywords |-> keywords,
     categories |-> categories]

\* The three CREATE TABLE statements in order; the first error ends the call
\* before the commit, so nothing of the call is kept.
CreateAll(st) ==
    LET r1 == CreateTable(st, "results", IfNotExists)
        r2 == CreateTable(r1.st, "keywords", IfNotExists)
        r3 == CreateTable(r2.st, "categories", IfNotExists)
    IN  IF r1.err # "none" THEN [st |-> st, err |-> r1.err]
        ELSE IF r2.err # "none" THEN [st |-> st, err |-> r2.err]
        ELSE IF r3.err # "none" THEN [st |-> st, err |-> r3.err]
        ELSE [st |-> r3.st, err |-> "none"]

\* ---------------------------------------------------------------- inputs
Uids == {"u1", "u2"}

\* The scalar values of the input records: the value of the columns the
\* citation parser fills and the value of the columns the service fills.
\* Each group of columns is null in one template.
ScalarTemplates ==
    {[parser |-> NULL, service |-> "c"],
     [parser |-> "a", service |-> NULL],
     [parser |-> "b", service |-> "d"]}

\* "fr -- a" and "fr -- n -- a" (with the em-dash delimiter), and the empty string.
TwoTokens == <<"f", "r", " ", EmDash, " ", "a">>
ThreeTokens == <<"f", "r", " ", EmDash, " ", "n", " ", EmDash, " ", "a">>
KeywordStrings == {TwoTokens, ThreeTokens}
CategoryStrings == {<<"c", " ", EmDash, " ", "e">>}

\* An optional key of a dict: <<>> leaves the key out, <<v>> sets it to v.
Optional(S) == {<<>>} \cup {<<v>> : v \in S}
WithKey(d, k, opt) == IF opt = <<>> THEN d ELSE d @@ (k :> opt[1])

\* A record holding every column insert_data subscripts.
FullRecord(u, t, kw, cat) ==
    WithKey(
        WithKey([c \in Columns |->
                    IF c = "uid" THEN u
                    ELSE IF c \in ParserColumns THEN t.parser ELSE t.service],
                "keywords", kw),
        "categories", cat)

Records ==
    {FullRecord(u, t, kw, cat) :
        u \in Uids, t \in ScalarTemplates,
        kw \in Optional(KeywordStrings), cat \in Optional(CategoryStrings)}

\* ---------------------------------------------------------------- initial state
EmptyView == [results |-> {}, keywords |-> EmptyBag, categories |-> EmptyBag]

StoreInit ==
    /\ tables = {}
    /\ results = {}
    /\ keywords = EmptyBag
    /\ categories = EmptyBag
    /\ pc = "idle"
    /\ conn = "none"
    /\ tx = EmptyView
    /\ data = <<>>
    /\ policy = FALSE
    /\ source = "none"
    /\ todo = <<>>
    /\ error = "none"
    /\ pre = [tables |-> {}, results |-> {}, keywords |-> EmptyBag,
              categories |-> EmptyBag]
    /\ calls = 0
    /\ createError = "none"

ApiInit ==
    /\ apiPc = "idle"
    /\ apiFlags = {}
    /\ apiIssued = {}
    /\ apiRecord = <<>>
    /\ apiBad = FALSE

UrlInit ==
    /\ urlPc = "idle"
    /\ urlArg = "none"
    /\ urlFetch = [failure |-> "none", status |-> 0, delay |-> 0]
    /\ urlOutcome = [kind |-> "none", class |-> "none", status |-> 0]
    /\ urlResult = "none"

Init == StoreInit /\ ApiInit /\ UrlInit

\* ---------------------------------------------------------------- the store
\* No call is in progress: the program is single-threaded.
BetweenCalls == pc \in {"idle", "created", "returned", "raised"}

\* create_citation_database(): connect, three CREATE TABLE IF NOT EXISTS,
\* commit, close.
create_citation_database ==
    /\ UNCHANGED <<apiVars, urlVars>>
    /\ BetweenCalls
    /\ LET r == CreateAll(Durable) IN
        /\ tables' = r.st.tables
        /\ results' = r.st.results
        /\ keywords' = r.st.keywords
        /\ categories' = r.st.categories
        /\ createError' = r.err
    /\ pre' = Durable
    /\ pc' = "created"
    /\ UNCHANGED <<conn, tx, data, policy, source, todo, error, calls>>

\* insert_data(d, update_existing): sqlite3.connect and conn.cursor().  The
\* connection sees the durable rows; its statements run in one implicit
\* transaction that only conn.commit() makes durable.
InsertDataCall(d, update_existing, src) ==
    /\ UNCHANGED <<apiVars, urlVars>>
    /\ BetweenCalls
    /\ calls < MaxCalls
    /\ calls' = calls + 1
    /\ data' = d
    /\ policy' = update_existing
    /\ source' = src
    /\ conn' = "open"
    /\ tx' = [results |-> results, keywords |-> keywords, categories |-> categories]
    /\ pre' = Durable
    /\ error' = "none"
    /\ todo' = <<>>
    /\ pc' = "primary"
    /\ UNCHANGED <<tables, results, keywords, categories, createError>>

\* An exception leaves insert_data: the statements after it, conn.commit() and
\* conn.close() included, are not reached.
Raise(e) ==
    /\ pc' = "raised"
    /\ error' = e
    /\ UNCHANGED <<tables, results, keywords, categories, conn, tx, data, policy,
                   source, todo, pre, calls, createError>>

\* Mutant: a conn.commit() right after the primary-row statement.
InsertPrimaryCommitting ==
    /\ UNCHANGED <<apiVars, urlVars>>
    /\ pc = "primary"
    /\ HasAllColumns(data)
    /\ "results" \in tables
    /\ tx' = [tx EXCEPT !.results = PrimaryStatement(@, RowOf(data), policy)]
    /\ results' = tx'.results
    /\ pc' = "keywords"
    /\ UNCHANGED <<tables, keywords, categories, conn, data, policy, source, todo,
                   error, pre, calls, createError>>

\* The primary-row statement of either branch.
InsertPrimary ==
    /\ UNCHANGED <<apiVars, urlVars>>
    /\ pc = "primary"
    /\ IF ~HasAllColumns(data) THEN Raise("KeyError")
       ELSE IF "results" \notin tables THEN Raise("OperationalError")
       ELSE /\ tx' = [tx EXCEPT !.results = PrimaryStatement(@, RowOf(data), policy)]
            /\ pc' = "keywords"
            /\ UNCHANGED <<tables, results, keywords, categories, conn, data, policy,
                           source, todo, error, pre, calls, createError>>

\* if data.get('keywords'): keywords = data['keywords'].split(' — ')
KeywordsBranch ==
    /\ UNCHANGED <<apiVars, urlVars>>
    /\ pc = "keywords"
    /\ todo' = Tokens(data, "keywords")
    /\ pc' = IF Truthy(data, "keywords") THEN "kwloop" ELSE "categories"
    /\ UNCHANGED <<tables, results, keywords, categories, conn, tx, data, policy,
                   source, error, pre, calls, createError>>

\* One iteration of the keyword loop.
KeywordInsert ==
    /\ UNCHANGED <<apiVars, urlVars>>
    /\ pc = "kwloop"
    /\ todo # <<>>
    /\ tx' = [tx EXCEPT
                !.keywords = InsertOrIgnoreChild(@, <<data.uid, Head(todo)>>)]
    /\ todo' = Tail(todo)
    /\ pc' = IF Len(todo) = 1 THEN "categories" ELSE "kwloop"
    /\ UNCHANGED <<tables, results, keywords, categories, conn, data, policy,
                   source, error, pre, calls, createError>>

\* if data.get('categories'): categories = data['categories'].split(' — ')
CategoriesBranch ==
    /\ UNCHANGED <<apiVars, urlVars>>
    /\ pc = "categories"
    /\ todo' = Tokens(data, "categories")
    /\ pc' = IF Truthy(data, "categories") THEN "catloop" ELSE "commit"
    /\ UNCHANGED <<tables, results, keywords, categories, conn, tx, data, policy,
                   source, error, pre, calls, createError>>

\* One iteration of the category loop.
CategoryInsert ==
    /\ UNCHANGED <<apiVars, urlVars>>
    /\ pc = "catloop"
    /\ todo # <<>>
    /\ tx' = [tx EXCEPT
                !.categories = InsertOrIgnoreChild(@, <<data.uid, Head(todo)>>)]
    /\ todo' = Tail(todo)
    /\ pc' = IF Len(todo) = 1 THEN "commit" ELSE "catloop"
    /\ UNCHANGED <<tables, results, keywords, categories, conn, data, policy,
                   source, error, pre, calls, createError>>

\* conn.commit(): the transaction's rows become durable together.
Commit ==
    /\ UNCHANGED <<apiVars, urlVars>>
    /\ pc = "commit"
    /\ results' = tx.results
    /\ keywords' = tx.keywords
    /\ categories' = tx.categories
    /\ pc' = "close"
    /\ UNCHANGED <<tables, conn, tx, data, policy, source, todo, error, pre, calls,
                   createError>>

\* conn.close()
Close ==
    /\ UNCHANGED <<apiVars, urlVars>>
    /\ pc = "close"
    /\ conn' = "closed"
    /\ pc' = "returned"
    /\ UNCHANGED <<tables, results, keywords, categories, tx, data, policy, source,
                   todo, error, pre, calls, createError>>

\* The store fails a statement or the commit (locked database, I/O error):
\* sqlite3 raises and the call ends there.
StoreFault ==
    /\ UNCHANGED <<apiVars, urlVars>>
    /\ pc \in {"primary", "kwloop", "catloop", "commit"}
    /\ pc = "primary" => HasAllColumns(data)
    /\ Raise("StoreFault")

StoreNext ==
    \/ create_citation_database
    \/ \E d \in Records, u \in BOOLEAN : InsertDataCall(d, u, "caller")
    \/ InsertPrimary
    \/ KeywordsBranch
    \/ KeywordInsert
    \/ CategoriesBranch
    \/ CategoryInsert
    \/ Commit
    \/ Close
    \/ StoreFault

Spec == Init /\ [][StoreNext]_vars

\* ---------------------------------------------------------------- canlii_api_call
\* The five facet flags, in the order the function tests them.
Facets ==
    {"decision_metadata", "cases_cited", "cases_citing", "legislation_metadata",
     "canlii_database"}

\* The endpoint each facet's request goes to.
EndpointOf(f) ==
    CASE f = "decision_metadata" -> "caseBrowse/{language}/{database_id}/{case_id}/"
      [] f = "cases_cited" -> "caseCitator/{language}/{database_id}/{case_id}/citedCases"
      [] f = "cases_citing" -> "caseCitator/{language}/{database_id}/{case_id}/citingCases"
      [] f = "legislation_metadata" ->
            "legislationBrowse/{language}/{database_id}/{legislation_id}/"
      [] f = "canlii_database" -> "caseBrowse/{language}/"

\* For a facet whose response is unpacked: the key of metadata_api_info each
\* assignment writes, and the key of the response it reads, in order.
FacetAssignments(f) ==
    CASE f = "decision_metadata" ->
            <<[to |-> "short_url", from |-> "url"],
              [to |-> "language", from |-> "language"],
              [to |-> "docket_number", from |-> "docketNumber"],
              [to |-> "decision_date", from |-> "decisionDate"],
              [to |-> "keywords", from |-> "keywords"],
              [to |-> "categories", from |-> "topics"]>>
      [] f = "legislation_metadata" ->
            <<[to |-> "database_id", from |-> "databaseId"],
              [to |-> "legislation_id", from |-> "legislationId"],
              [to |-> "title", from |-> "title"],
              [to |-> "type", from |-> "type"],
              [to |-> "citation", from |-> "citation"]>>
      [] OTHER -> <<>>

\* For a facet whose response is stored whole: the key it is stored under.
VerbatimKey(f) ==
    CASE f = "cases_cited" -> "cited_cases"
      [] f = "cases_citing" -> "citing_cases"
      [] f = "canlii_database" -> "database"

\* The keys of metadata_api_info a facet writes.
FacetKeys(f) ==
    IF FacetAssignments(f) # <<>>
    THEN {FacetAssignments(f)[i].to : i \in DOMAIN FacetAssignments(f)}
    ELSE {VerbatimKey(f)}

\* What the service's JSON holds for a facet that it answers.
FacetBody(f) ==
    CASE f = "decision_metadata" ->
            [url |-> "https://short/x", language |-> "en", docketNumber |-> "C12345",
             decisionDate |-> "2021-03-01", keywords |-> TwoTokens,
             topics |-> <<"c", " ", EmDash, " ", "e">>]
      [] f = "cases_cited" -> [citedCases |-> "cited list"]
      [] f = "cases_citing" -> [citingCases |-> "citing list"]
      [] f = "legislation_metadata" ->
            [databaseId |-> "cas", legislationId |-> "rsc-1985-c-c-46",
             title |-> "Criminal Code", type |-> "STATUTE",
             citation |-> "RSC 1985, c C-46"]
      [] f = "canlii_database" -> [caseDatabases |-> "database list"]

\* The JSON error object the service sends when it refuses a request.
ErrorBody == [error |-> "NOT_FOUND"]

\* What requests.get can do: fail in transport, or deliver a response.  The
\* service answers 200 with the facet's JSON or 404 with an error object;
\* under either status the body may also fail to be JSON.
Responses ==
    {[transport |-> FALSE, status |-> 200, body |-> "facet"],
     [transport |-> FALSE, status |-> 200, body |-> "notjson"],
     [transport |-> FALSE, status |-> 404, body |-> "error"],
     [transport |-> FALSE, status |-> 404, body |-> "notjson"],
     [transport |-> TRUE, status |-> 0, body |-> "none"]}

\* response.json() of a response whose body is JSON.
JsonOf(f, resp) == IF resp.body = "facet" THEN FacetBody(f) ELSE ErrorBody

\* The exception the statements of a facet's block raise for a response,
\* "none" when they all complete.  The status code is never read.
FacetError(f, resp) ==
    IF resp.transport THEN "RequestException"
    ELSE IF resp.body = "notjson" THEN "JSONDecodeError"
    ELSE IF \E i \in DOMAIN FacetAssignments(f) :
                FacetAssignments(f)[i].from \notin DOMAIN JsonOf(f, resp)
         THEN "KeyError"
    ELSE "none"

\* metadata_api_info after a facet's block completed.
FacetStore(rec, f, resp) ==
    LET json == JsonOf(f, resp)
        as == FacetAssignments(f)
    IN  IF as # <<>>
        THEN [k \in FacetKeys(f) |->
                json[as[CHOOSE i \in DOMAIN as : as[i].to = k].from]] @@ rec
        ELSE (VerbatimKey(f) :> json) @@ rec

\* The answer counts as a failure of the facet: a non-success status, or a
\* body that is not valid JSON.
FailedAnswer(resp) == ~resp.transport /\ (resp.status # 200 \/ resp.body = "notjson")

\* Where the environment keeps the credential: CANLII_API_KEY is set, or it is
\* typed at the prompt, or the prompt is answered with a blank line.
CredentialSources == {"env", "typed", "blank"}

ApiBetweenCalls == apiPc \in {"idle", "returned", "raised", "exited"}

\* canlii_api_call(...): load_dotenv, the credential, metadata_api_info = {}.
CanliiApiCall(flags, cred) ==
    /\ UNCHANGED <<storeVars, urlVars>>
    /\ ApiBetweenCalls
    /\ BetweenCalls
    /\ apiFlags' = flags
    /\ apiIssued' = {}
    /\ apiRecord' = <<>>
    /\ apiBad' = FALSE
    /\ apiPc' = IF cred = "blank" THEN "exited" ELSE "decision_metadata"

\* One `if <flag>:` block: skipped when the flag is unset; otherwise the
\* request is issued and the response unpacked or stored.  After the last
\* block the function returns metadata_api_info.
FacetStep(f, flag, next, resp) ==
    /\ UNCHANGED <<storeVars, urlVars>>
    /\ apiPc = f
    /\ apiFlags' = apiFlags
    /\ IF ~flag
       THEN /\ apiPc' = next
            /\ UNCHANGED <<apiIssued, apiRecord, apiBad>>
       ELSE /\ apiIssued' = apiIssued \cup {EndpointOf(f)}
            /\ apiBad' = (apiBad \/ FailedAnswer(resp))
            /\ IF FacetError(f, resp) # "none"
               THEN apiPc' = "raised" /\ apiRecord' = apiRecord
               ELSE apiPc' = next /\ apiRecord' = FacetStore(apiRecord, f, resp)

DecisionMetadata ==
    \E resp \in Responses :
        FacetStep("decision_metadata", "decision_metadata" \in apiFlags,
                  "cases_cited", resp)

CasesCited ==
    \E resp \in Responses :
        FacetStep("cases_cited", "cases_cited" \in apiFlags, "cases_citing", resp)

\* Mutant: the citing-cases block tests the cited-cases flag.
CasesCitingOnCitedFlag ==
    \E resp \in Responses :
        FacetStep("cases_citing", "cases_cited" \in apiFlags,
                  "legislation_metadata", resp)

CasesCiting ==
    \E resp \in Responses :
        FacetStep("cases_citing", "cases_citing" \in apiFlags,
                  "legislation_metadata", resp)

LegislationMetadata ==
    \E resp \in Responses :
        FacetStep("legislation_metadata", "legislation_metadata" \in apiFlags,
                  "canlii_database", resp)

CanliiDatabase ==
    \E resp \in Responses :
        FacetStep("canlii_database", "canlii_database" \in apiFlags, "returned", resp)

ApiNext ==
    \/ \E flags \in SUBSET Facets, cred \in CredentialSources :
            CanliiApiCall(flags, cred)
    \/ DecisionMetadata
    \/ CasesCited
    \/ CasesCiting
    \/ LegislationMetadata
    \/ CanliiDatabase

SpecApi == Init /\ [][ApiNext]_vars

\* ---------------------------------------------------------------- the pipeline
\* The record a caller builds for insert_data from the parser's columns of a
\* citation and the record canlii_api_call returned.
MergedRecord(u, t) ==
    [c \in {"uid"} \cup ParserColumns |-> IF c = "uid" THEN u ELSE t.parser]
        @@ apiRecord

\* insert_data(canlii_api_call(..., decision_metadata=True)): the returned
\* record is passed on as it is.
PipelineWrite(update_existing) ==
    /\ apiPc = "returned"
    /\ InsertDataCall(apiRecord, update_existing, "api")

\* The returned record is passed on with the parser's columns added.
PipelineWriteMerged(u, t, update_existing) ==
    /\ apiPc = "returned"
    /\ InsertDataCall(MergedRecord(u, t), update_existing, "merged")

PipelineNext ==
    \/ create_citation_database
    \/ \E cred \in CredentialSources : CanliiApiCall({"decision_metadata"}, cred)
    \/ DecisionMetadata
    \/ CasesCited
    \/ CasesCiting
    \/ LegislationMetadata
    \/ CanliiDatabase
    \/ \E u \in BOOLEAN : PipelineWrite(u)
    \/ \E id \in Uids, t \in ScalarTemplates, u \in BOOLEAN :
            PipelineWriteMerged(id, t, u)
    \/ InsertPrimary
    \/ KeywordsBranch
    \/ KeywordInsert
    \/ CategoriesBranch
    \/ CategoryInsert
    \/ Commit
    \/ Close
    \/ StoreFault

SpecPipeline == Init /\ [][PipelineNext]_vars

\* ---------------------------------------------------------------- check_url
\* requests.get(url, timeout=5)
Timeout == 5

Urls == {"https://a.example/", "https://b.example/x", "http://c.example/"}

\* Status codes of the response that ends the fetch.
FinalStatuses == {200, 204, 403, 404, 500}

\* Transport failures and the exception requests raises for each.
TransportFailures == {"dns", "refused", "tls", "connect timeout"}
ExceptionOf(failure) ==
    CASE failure = "dns" -> "ConnectionError"
      [] failure = "refused" -> "ConnectionError"
      [] failure = "tls" -> "SSLError"
      [] failure = "connect timeout" -> "ConnectTimeout"

\* What the network does with the fetch: a transport failure, or a server
\* that answers with a status after a delay.
Fetches ==
    {[failure |-> f, status |-> 0, delay |-> 0] : f \in TransportFailures}
    \cup {[failure |-> "none", status |-> st, delay |-> d] :
            st \in FinalStatuses, d \in 0..MaxDelay}

\* requests.get: the response, or the exception raised; an answer later than
\* the timeout is a ReadTimeout.
Get(fetch) ==
    IF fetch.failure # "none"
    THEN [kind |-> "exception", class |-> ExceptionOf(fetch.failure), status |-> 0]
    ELSE IF fetch.delay > Timeout
    THEN [kind |-> "exception", class |-> "ReadTimeout", status |-> 0]
    ELSE [kind |-> "response", class |-> "none", status |-> fetch.status]

\* The classes `except requests.RequestException` catches: the class and its
\* subclasses in the requests library.
RequestExceptionClasses ==
    {"RequestException", "ConnectionError", "SSLError", "Timeout", "ConnectTimeout",
     "ReadTimeout", "TooManyRedirects", "HTTPError"}

\* Mutant: response.ok, which accepts every status below 400.
StatusOk(status) == status < 400

\* if response.status_code == 200
StatusAccepted(status) == status = 200

\* check_url(url): entry.
CheckUrlCall(url) ==
    /\ UNCHANGED <<storeVars, apiVars>>
    /\ urlPc \in {"idle", "returned", "raised"}
    /\ urlPc' = "fetching"
    /\ urlArg' = url
    /\ urlFetch' = [failure |-> "none", status |-> 0, delay |-> 0]
    /\ urlOutcome' = [kind |-> "none", class |-> "none", status |-> 0]
    /\ urlResult' = "none"

\* The try block and its handler.
CheckUrlFetch(fetch) ==
    /\ UNCHANGED <<storeVars, apiVars>>
    /\ urlPc = "fetching"
    /\ urlArg' = urlArg
    /\ urlFetch' = fetch
    /\ LET got == Get(fetch) IN
        /\ urlOutcome' = got
        /\ IF got.kind = "response"
           THEN /\ urlPc' = "returned"
                /\ urlResult' = IF StatusAccepted(got.status) THEN urlArg ELSE NULL
           ELSE IF got.class \in RequestExceptionClasses
           THEN urlPc' = "returned" /\ urlResult' = NULL
           ELSE urlPc' = "raised" /\ urlResult' = "none"

UrlNext ==
    \/ \E url \in Urls : CheckUrlCall(url)
    \/ \E fetch \in Fetches : CheckUrlFetch(fetch)

SpecUrl == Init /\ [][UrlNext]_vars

\* ================================================================ claims
RowsFor(rows, u) == {x \in rows : x.uid = u}

\* The rows of a child relation that belong to uid u.
ChildRowsFor(bag, u) ==
    [p \in {q \in DOMAIN bag : q[1] = u} |-> bag[p]]

\* The bag holding <<u, t>> once for each token t.
TokenBag(u, toks) == SetToBag({<<u, toks[i]>> : i \in DOMAIN toks})

Distinct(toks) == \A i, j \in DOMAIN toks : toks[i] = toks[j] => i = j

DurableUnchanged ==
    /\ results = pre.results
    /\ keywords = pre.keywords
    /\ categories = pre.categories

\* C1: after insert_data returns under the Ignore policy for a uid that had a
\* stored row, that row is the stored row as it was and it is the only row
\* of the uid.
C1_IgnoreKeepsStoredRow ==
    (pc = "returned" /\ ~policy /\ RowsFor(pre.results, data.uid) # {})
        => /\ RowsFor(results, data.uid) = RowsFor(pre.results, data.uid)
           /\ Cardinality(RowsFor(results, data.uid)) = 1

\* An Ignore write returned for a uid whose stored row differs from the record.
C1_Witness ==
    /\ pc = "returned"
    /\ ~policy
    /\ \E x \in pre.results : x.uid = data.uid /\ x # RowOf(data)

\* C2: after insert_data returns under the Update policy, the uid has exactly
\* one row and it is the record's row, whether or not a row was stored before.
C2_UpdateReplacesRow ==
    (pc = "returned" /\ policy) => RowsFor(results, data.uid) = {RowOf(data)}

\* An Update write returned over a stored row A where the record B has a null
\* in a column A filled and another value in a column B fills.
C2_Witness ==
    /\ pc = "returned"
    /\ policy
    /\ \E x \in pre.results :
        /\ x.uid = data.uid
        /\ \E c \in ScalarColumns : x[c] # NULL /\ data[c] = NULL
        /\ \E c \in ScalarColumns : data[c] # NULL /\ x[c] # data[c]

\* C3: a write of a keyword string of n distinct tokens, onto a keywords
\* relation that holds for the uid either nothing or exactly the n rows of the
\* same string, leaves exactly those n rows, each once.
C3_KeywordRowsOnce ==
    (/\ pc = "returned"
     /\ Truthy(data, "keywords")
     /\ Distinct(Tokens(data, "keywords"))
     /\ ChildRowsFor(pre.keywords, data.uid)
            \in {EmptyBag, TokenBag(data.uid, Tokens(data, "keywords"))})
        => ChildRowsFor(keywords, data.uid)
            = TokenBag(data.uid, Tokens(data, "keywords"))

\* C4: while an insert_data call has not committed, and after it ended by an
\* exception, the durable relations are what they were when it began; once
\* it committed they hold its primary row and every child row together.
C4_AllOrNothing ==
    /\ pc \in {"primary", "keywords", "kwloop", "categories", "catloop", "commit",
               "raised"} => DurableUnchanged
    /\ pc \in {"close", "returned"} =>
        /\ RowsFor(results, data.uid) # {}
        /\ \A i \in DOMAIN Tokens(data, "keywords") :
                BagIn(<<data.uid, Tokens(data, "keywords")[i]>>, keywords)
        /\ \A i \in DOMAIN Tokens(data, "categories") :
                BagIn(<<data.uid, Tokens(data, "categories")[i]>>, categories)

\* A call failed after its primary-row and keyword statements had run.
C4_Witness ==
    /\ pc = "raised"
    /\ error = "StoreFault"
    /\ tx.results # pre.results
    /\ tx.keywords # pre.keywords

C6_FailedFacetRaises == apiPc = "returned" => ~apiBad

\* C7: insert_data given the record canlii_api_call returned does not fail
\* for a column the record lacks.
C7_ApiRecordIsWritable == source = "api" => error # "KeyError"

\* C8: after create_citation_database, on any store, no exception was raised,
\* the three relations exist and every relation holds the rows it held.
C8_CreateKeepsRows ==
    pc = "created" =>
        /\ createError = "none"
        /\ Relations \subseteq tables
        /\ DurableUnchanged

\* create_citation_database ran on a store whose relations existed and held
\* primary, keyword and category rows.
C8_Witness ==
    /\ pc = "created"
    /\ pre.tables = Relations
    /\ pre.results # {}
    /\ pre.keywords # EmptyBag
    /\ pre.categories # EmptyBag

\* The success statuses of HTTP.
IsSuccessStatus(status) == 200 <= status /\ status < 300

C10_ConnectionClosed == pc \in {"returned", "raised"} => conn = "closed"

====
